---- MODULE Spec2Model ----
(***************************************************************************)
(* State-machine model of canvas.py ("Iron Canvas"): the per-frame tick    *)
(* loop of main(), the ArcPalette hover test, the cursor smoothing, and    *)
(* the SoundEngine thread that runs beside the tick loop.                  *)
(*                                                                         *)
(* Representation choices                                                  *)
(*  - A point is a pair <<x, y>> of integer pixel coordinates.  The        *)
(*    detector scales normalised landmarks in [0,1] by the frame size, so  *)
(*    coordinates are non-negative.                                        *)
(*  - math.hypot results are held as their squares (dx^2 + dy^2): every    *)
(*    use in the code is a comparison with a constant, a test for zero or  *)
(*    a monotone function of the distance, all decidable on the square.    *)
(*  - The canvas is the sequence of strokes drawn since the last reset;    *)
(*    the empty sequence is the all-zero bitmap (every palette colour is   *)
(*    non-black, so every stroke leaves non-zero pixels).                  *)
(*  - The float arithmetic of the smoothing is evaluated as IEEE-754       *)
(*    binary64 does, not as exact rationals (see Smooth).                  *)
(***************************************************************************)
EXTENDS Integers, Sequences, FiniteSets, TLC

VARIABLES
    pc,              \* main thread: position in main()
    smooth_x,        \* main(): smooth_x
    smooth_y,        \* main(): smooth_y
    current_color,   \* main(): current_color
    selected_index,  \* palette.selected_index
    canvas,          \* main(): canvas
    points,          \* main(): points of the current tick (None or the two tips used)
    cursor,          \* (smooth_x, smooth_y) as computed at lines 263-264, None without hand
    dist,            \* main(): dist (squared), -1 without hand
    hover_idx,       \* main(): hover_idx
    is_drawing,      \* main(): is_drawing
    velocity,        \* main(): velocity (squared)
    sound_active,    \* sound.active
    sound_velocity,  \* sound.velocity (squared)
    stop_event,      \* sound.stop_event
    audio_available, \* AUDIO_AVAILABLE
    audio_pc,        \* audio thread: position in SoundEngine._loop
    freq,            \* SoundEngine._loop: freq
    hand_seen,       \* history: some tick so far detected a hand
    ticks,           \* history: number of ticks run
    old,             \* history: the persistent state at the start of the last tick
    tags,            \* history: the tick whose set_drawing call wrote each field, and the
                     \* writes the audio loop read for the tone it is about to emit
    smoothing,       \* harness of the pure smoothing function (SmoothSpec)
    probe            \* harness of the pure hover and compositing functions

statevars == <<smooth_x, smooth_y, current_color, selected_index, canvas>>
localvars == <<points, cursor, dist, hover_idx, is_drawing, velocity>>
histvars == <<hand_seen, ticks, old>>
mainvars == <<pc, statevars, localvars, histvars>>
sharedvars == <<sound_active, sound_velocity, stop_event>>
audiovars == <<audio_available, audio_pc, freq>>
purevars == <<smoothing, probe>>
vars == <<mainvars, sharedvars, audiovars, tags, purevars>>

\* Python None, and the absent point or frame
None == << >>

----------------------------------------------------------------------------
(* Bounds of the exploration *)

MaxTicks == 3
MaxCoord == 7

----------------------------------------------------------------------------
(* Config *)

PINCH_THRESHOLD == 40
ARC_CENTER == <<640, 0>>
ARC_RADIUS == 150
ARC_THICKNESS == 60
GUARD_LINE == 200

\* SMOOTHING = 0.6 and 1 - SMOOTHING: the binary64 nearest to 6/10 is
\* 5404319552844595 / 2^53 and 1 - it is exactly 3602879701896397 / 2^53.
\* Only the low 11 bits of the two significands decide a rounding of a
\* product with a coordinate below 2^11.
SMOOTHING_TENTHS == 6
SMOOTHING_LOW == 819
ONE_MINUS_SMOOTHING_LOW == 1229

----------------------------------------------------------------------------
(* Geometry *)

RECURSIVE Pow2(_)
Pow2(k) == IF k = 0 THEN 1 ELSE 2 * Pow2(k - 1)

\* math.hypot(dx, dy), squared
Hypot2(dx, dy) == dx * dx + dy * dy

\* hypot value (given squared) < an integer limit
Below(d2, limit) == d2 < limit * limit

\* Number of low bits a binary64 product c * K drops, K = (num/5 + tiny) and
\* c an integer: the product lies in [2^e, 2^(e+1)) with 5*2^e <= num*c, and
\* a 53-bit significand keeps the bits above 2^(e+1-53).
DropBits(v) == CHOOSE d \in 0..13 :
                  /\ 5 * Pow2(d) > v
                  /\ (d > 0 => 5 * Pow2(d - 1) <= v)

\* Error (in units of 2^-53) of rounding c * K to nearest, ties to even,
\* where low is the low 11 bits of K's significand and d the bits dropped.
RoundErr(c, low, d) ==
    IF d = 0 THEN 0
    ELSE LET m    == Pow2(d)
             rest == (c * low) % m
             odd  == ((c * low) \div m) % 2 = 1
         IN  IF 2 * rest < m THEN 0 - rest
             ELSE IF 2 * rest > m THEN m - rest
             ELSE IF odd THEN m - rest ELSE 0 - rest

\* lines 263-264 with the weight of prev taken as 1 + SMOOTHING
SmoothOvershoot(prev, raw) ==
    ((10 + SMOOTHING_TENTHS) * prev + SMOOTHING_TENTHS * raw) \div 10

\* lines 263-264 rounded to the nearest integer instead of truncated
SmoothRounded(prev, raw) ==
    ((10 - SMOOTHING_TENTHS) * prev + SMOOTHING_TENTHS * raw + 5) \div 10

\* int(prev * (1 - Config.SMOOTHING) + raw * Config.SMOOTHING) for
\* non-negative integers prev, raw, as binary64 evaluates it.  The exact
\* value is (4*prev + 6*raw)/10.  When that is no integer its fraction is
\* at least 0.2 and the rounding errors (below 2^-40) cannot move the
\* truncation.  When it is an integer n, the float sum is n + t * 2^-53
\* with t the sum of the representation error of the two constants and the
\* two product roundings; it truncates to n - 1 exactly when t < 0 and the
\* sum does not round up to n (ties go to n, whose significand is even).
Smooth(prev, raw) ==
    LET s == (10 - SMOOTHING_TENTHS) * prev + SMOOTHING_TENTHS * raw
        n == s \div 10
    IN  IF s % 10 # 0 THEN n
        ELSE LET t == (prev - raw) \div 5
                      + RoundErr(prev, ONE_MINUS_SMOOTHING_LOW, DropBits(2 * prev))
                      + RoundErr(raw, SMOOTHING_LOW, DropBits(3 * raw))
                 m == CHOOSE e \in 0..12 : Pow2(e) <= n /\ n < Pow2(e + 1)
                 ulp == IF n = Pow2(m) THEN Pow2(m) ELSE Pow2(m + 1)
             IN  IF t >= 0 \/ n = 0 THEN n
                 ELSE IF 2 * (0 - t) <= ulp THEN n ELSE n - 1

----------------------------------------------------------------------------
(* ArcPalette *)

\* ArcPalette.colors: (BGR colour, name), positions 0..7 held at 1..8
colors == << [color |-> <<0, 0, 255>>,     name |-> "RED"],
             [color |-> <<0, 165, 255>>,   name |-> "ORANGE"],
             [color |-> <<0, 255, 255>>,   name |-> "YELLOW"],
             [color |-> <<0, 255, 0>>,     name |-> "GREEN"],
             [color |-> <<255, 255, 0>>,   name |-> "CYAN"],
             [color |-> <<255, 0, 255>>,   name |-> "PURPLE"],
             [color |-> <<255, 255, 255>>, name |-> "WHITE"],
             [color |-> <<0, 0, 0>>,       name |-> "CLEAR"] >>

num_colors == Len(colors)

\* angle >= j * sector_angle (sector_angle = 180/8 = 22.5 degrees) for the
\* direction (dx, dy) with dy >= 0, decided without trigonometry:
\* tan 22.5 = sqrt 2 - 1 and tan 67.5 = sqrt 2 + 1, and no integer direction
\* lies exactly on an odd multiple of 22.5 degrees.
AngleAtLeast(j, dx, dy) ==
    LET ax == 0 - dx
    IN  CASE j = 1 -> dx <= 0 \/ (dy + dx) * (dy + dx) >= 2 * dx * dx
          [] j = 2 -> dy >= dx
          [] j = 3 -> dx <= 0 \/ (dy >= dx /\ (dy - dx) * (dy - dx) >= 2 * dx * dx)
          [] j = 4 -> dx <= 0
          [] j = 5 -> dx < 0 /\ (dy < ax \/ (dy - ax) * (dy - ax) <= 2 * ax * ax)
          [] j = 6 -> dx < 0 /\ dy <= ax
          [] j = 7 -> dx < 0 /\ (dy + ax) * (dy + ax) <= 2 * ax * ax
          [] OTHER -> dx < 0 /\ dy = 0

\* int(angle / sector_angle) for an angle in [0, 180]: the number of sector
\* boundaries at or below the angle; 8 at exactly 180 degrees.
SectorOf(dx, dy) == Cardinality({j \in 1..num_colors : AngleAtLeast(j, dx, dy)})

\* line 180 with every distance accepted
OnArcAlways(d2) == d2 >= 0

\* the annulus test  radius < dist < radius + Config.ARC_THICKNESS
OnArc(d2) ==
    /\ d2 > ARC_RADIUS * ARC_RADIUS
    /\ d2 < (ARC_RADIUS + ARC_THICKNESS) * (ARC_RADIUS + ARC_THICKNESS)

\* ArcPalette.draw: the hover_index it returns (the rendering changes no state)
HoverIndex(hover_pt) ==
    IF hover_pt = None THEN -1
    ELSE LET dx == hover_pt[1] - ARC_CENTER[1]
             dy == hover_pt[2] - ARC_CENTER[2]
         IN  IF OnArc(Hypot2(dx, dy)) /\ dy >= 0 THEN SectorOf(dx, dy) ELSE -1

----------------------------------------------------------------------------
(* main(): one frame *)

\* the raw index-tip positions and thumb offsets the detector may report
IdxTips == { <<640, 205>>,   \* on the arc (sector 4), below the guard line
             <<756, 138>>,   \* on the arc, sector 2
             <<460, 10>>,    \* on the arc, sector 7 (CLEAR)
             <<460, 0>>,     \* on the arc at exactly 180 degrees
             <<640, 500>>,   \* drawing area
             <<0, 400>> }    \* drawing area, left edge
ThumbOffsets == { <<6, 8>>, <<24, 32>> }   \* pinch distance 10 and 40

\* a frame with a hand is <<points[8], points[4]>>: the index tip and the
\* thumb tip, the only two landmarks main() reads
Frames == {None} \cup { << i, <<i[1] + o[1], i[2] + o[2]>> >>
                        : i \in IdxTips, o \in ThumbOffsets }

\* lines 260-261: the cursor memory is (re)initialised while smooth_x is 0
\* the same without the (re)initialisation
SeedNever(sx, sy, c) == <<sx, sy>>
Seed(sx, sy, c) == IF sx = 0 THEN c ELSE <<sx, sy>>

\* lines 260-264: the smoothed cursor of this tick
SmoothCursor(sx, sy, c) ==
    LET s == Seed(sx, sy, c)
    IN  <<Smooth(s[1], c[1]), Smooth(s[2], c[2])>>

\* line 276
Selecting(h, d2) == h # -1 /\ Below(d2, PINCH_THRESHOLD)

\* line 285 without the test of smooth_y
DrawingUnguarded(h, d2, cur) ==
    ~Selecting(h, d2) /\ Below(d2, PINCH_THRESHOLD)

\* line 285 (reached only when line 276 is false)
Drawing(h, d2, cur) ==
    ~Selecting(h, d2) /\ Below(d2, PINCH_THRESHOLD) /\ cur[2] > GUARD_LINE

\* lines 277-279: the canvas after a committed selection of entry h
\* the same with CLEAR taken for a colour
CommitCanvasKept(h, cv) == cv
CommitCanvas(h, cv) == IF colors[h + 1].name = "CLEAR" THEN << >> ELSE cv

\* lines 277-281 with CLEAR taken for a colour
CommitIndexAlways(h, sel) == h

\* lines 277-281: palette.selected_index after a committed selection
CommitIndex(h, sel) == IF colors[h + 1].name = "CLEAR" THEN sel ELSE h

\* lines 277-282: current_color after a committed selection
\* the same with the colour left as it was
CommitColorKept(h, col) == col
CommitColor(h, col) ==
    IF colors[h + 1].name = "CLEAR" THEN col ELSE colors[h + 1].color

\* lines 290-293: cv2.line from the smoothed cursor to the raw tip and the
\* end cap at the raw tip, both in current_color
\* the same with the end points exchanged
StrokeReversed(cur, c, col) == [from |-> c, to |-> cur, color |-> col]
Stroke(cur, c, col) == [from |-> cur, to |-> c, color |-> col]

\* the persistent state as a tick finds it (history)
Snapshot == [smooth |-> <<smooth_x, smooth_y>>, canvas |-> canvas,
             selected_index |-> selected_index, current_color |-> current_color,
             hand_seen |-> hand_seen]

\* lines 242-245: cap.read() fails, the loop is left
ReadFail ==
    /\ pc = "read"
    /\ pc' = "stop"
    /\ UNCHANGED <<statevars, localvars, histvars>>
    /\ UNCHANGED <<sharedvars, audiovars, tags, purevars>>

\* lines 250-251, 298-300: a frame without a hand
\* the same with the cursor memory reset when the hand is lost
TickNoHandReset ==
    /\ pc = "read"
    /\ ticks < MaxTicks
    /\ points' = None
    /\ cursor' = None
    /\ dist' = -1
    /\ hover_idx' = HoverIndex(None)
    /\ is_drawing' = FALSE
    /\ velocity' = 0
    /\ pc' = "set_active"
    /\ ticks' = ticks + 1
    /\ old' = Snapshot
    /\ smooth_x' = 0 /\ smooth_y' = 0
    /\ UNCHANGED <<current_color, selected_index, canvas, hand_seen>>
    /\ UNCHANGED <<sharedvars, audiovars, tags, purevars>>
TickNoHand ==
    /\ pc = "read"
    /\ ticks < MaxTicks
    /\ points' = None
    /\ cursor' = None
    /\ dist' = -1
    /\ hover_idx' = HoverIndex(None)
    /\ is_drawing' = FALSE
    /\ velocity' = 0
    /\ pc' = "set_active"
    /\ ticks' = ticks + 1
    /\ old' = Snapshot
    /\ UNCHANGED <<statevars, hand_seen>>
    /\ UNCHANGED <<sharedvars, audiovars, tags, purevars>>

\* lines 250-296: a frame with a hand
TickHand ==
    /\ pc = "read"
    /\ ticks < MaxTicks
    /\ \E p \in Frames \ {None} :
         LET idx_tip == p[1]
             thm_tip == p[2]
             c   == idx_tip
             cur == SmoothCursor(smooth_x, smooth_y, c)
             d2  == Hypot2(idx_tip[1] - thm_tip[1], idx_tip[2] - thm_tip[2])
             h   == HoverIndex(cur)
         IN  /\ points' = p
             /\ cursor' = cur
             /\ dist' = d2
             /\ hover_idx' = h
             /\ hand_seen' = TRUE
             /\ ticks' = ticks + 1
             /\ old' = Snapshot
             /\ IF Selecting(h, d2) /\ h >= num_colors
                THEN \* line 277: IndexError, main() dies before line 296
                     /\ pc' = "crashed"
                     /\ smooth_x' = cur[1] /\ smooth_y' = cur[2]
                     /\ is_drawing' = FALSE /\ velocity' = 0
                     /\ UNCHANGED <<current_color, selected_index, canvas>>
                ELSE /\ pc' = "set_active"
                     /\ smooth_x' = c[1] /\ smooth_y' = c[2]
                     /\ IF Selecting(h, d2)
                        THEN /\ is_drawing' = FALSE /\ velocity' = 0
                             /\ canvas' = CommitCanvas(h, canvas)
                             /\ selected_index' = CommitIndex(h, selected_index)
                             /\ current_color' = CommitColor(h, current_color)
                        ELSE IF Drawing(h, d2, cur)
                        THEN /\ is_drawing' = TRUE
                             /\ velocity' = Hypot2(cur[1] - c[1], cur[2] - c[2])
                             /\ canvas' = Append(canvas, Stroke(cur, c, current_color))
                             /\ UNCHANGED <<current_color, selected_index>>
                        ELSE /\ is_drawing' = FALSE /\ velocity' = 0
                             /\ UNCHANGED <<current_color, selected_index, canvas>>
    /\ UNCHANGED <<sharedvars, audiovars, tags, purevars>>

\* line 51 (called from line 303): self.active = is_drawing
SetActive ==
    /\ pc = "set_active"
    /\ sound_active' = is_drawing
    /\ tags' = [tags EXCEPT !.active = ticks]
    /\ pc' = "set_velocity"
    /\ UNCHANGED <<statevars, localvars, histvars>>
    /\ UNCHANGED <<sound_velocity, stop_event, audiovars, purevars>>

\* line 52: self.velocity = velocity
SetVelocity ==
    /\ pc = "set_velocity"
    /\ sound_velocity' = velocity
    /\ tags' = [tags EXCEPT !.velocity = ticks]
    /\ pc' = "show"
    /\ UNCHANGED <<statevars, localvars, histvars>>
    /\ UNCHANGED <<sound_active, stop_event, audiovars, purevars>>

\* lines 305-322: the frame is composited and shown; 'q' leaves the loop
Show ==
    /\ pc = "show"
    /\ \E quit \in BOOLEAN : pc' = IF quit THEN "stop" ELSE "read"
    /\ UNCHANGED <<statevars, localvars, histvars>>
    /\ UNCHANGED <<sharedvars, audiovars, tags, purevars>>

\* lines 324-326: sound.stop_event.set(), then the resources are released
Stop ==
    /\ pc = "stop"
    /\ stop_event' = TRUE
    /\ pc' = "done"
    /\ UNCHANGED <<statevars, localvars, histvars>>
    /\ UNCHANGED <<sound_active, sound_velocity, audiovars, tags, purevars>>

----------------------------------------------------------------------------
(* SoundEngine._loop: the audio thread *)

\* line 56: the loop condition
\* the same with the flag ignored
KeepLoopingAlways(stopped) == TRUE
KeepLooping(stopped) == ~stopped

\* lines 60-61: int(200 + velocity * 5) clamped to [100, 800]
FreqOf(v2) ==
    IF 25 * v2 >= 600 * 600 THEN 800
    ELSE 200 + (CHOOSE k \in 0..600 : k * k <= 25 * v2 /\ 25 * v2 < (k + 1) * (k + 1))

\* line 56: while not self.stop_event.is_set()
LoopTest ==
    /\ audio_pc = "while"
    /\ audio_pc' = IF KeepLooping(stop_event) THEN "if" ELSE "done"
    /\ UNCHANGED <<audio_available, freq>>
    /\ UNCHANGED <<mainvars, sharedvars, tags, purevars>>

\* line 57: if AUDIO_AVAILABLE and self.active
ActiveTest ==
    /\ audio_pc = "if"
    /\ audio_pc' = IF audio_available /\ sound_active THEN "freq" ELSE "sleep"
    /\ tags' = [tags EXCEPT !.read_active =
                                IF audio_available /\ sound_active THEN tags.active ELSE 0]
    /\ UNCHANGED <<audio_available, freq>>
    /\ UNCHANGED <<mainvars, sharedvars, purevars>>

\* lines 60-61: the frequency from self.velocity
ComputeFreq ==
    /\ audio_pc = "freq"
    /\ freq' = FreqOf(sound_velocity)
    /\ tags' = [tags EXCEPT !.read_velocity = tags.velocity]
    /\ audio_pc' = "beep"
    /\ UNCHANGED audio_available
    /\ UNCHANGED <<mainvars, sharedvars, purevars>>

\* line 62: winsound.Beep(freq, 40) is entered
BeepBegin ==
    /\ audio_pc = "beep"
    /\ audio_pc' = "beeping"
    /\ tags' = [tags EXCEPT !.read_active = 0, !.read_velocity = 0]
    /\ UNCHANGED <<audio_available, freq>>
    /\ UNCHANGED <<mainvars, sharedvars, purevars>>

\* lines 62-64: the tone ends or fails; a failure is swallowed
BeepEnd ==
    /\ audio_pc = "beeping"
    /\ audio_pc' = "while"
    /\ freq' = 0
    /\ UNCHANGED audio_available
    /\ UNCHANGED <<mainvars, sharedvars, tags, purevars>>

\* line 66: time.sleep(0.05)
Sleep ==
    /\ audio_pc = "sleep"
    /\ audio_pc' = "while"
    /\ UNCHANGED <<audio_available, freq>>
    /\ UNCHANGED <<mainvars, sharedvars, tags, purevars>>

AudioNext == LoopTest \/ ActiveTest \/ ComputeFreq \/ BeepBegin \/ BeepEnd \/ Sleep

----------------------------------------------------------------------------
(* The program *)

\* main() lines 229-238 and SoundEngine.__init__
InitProgram ==
    /\ pc = "read"
    /\ smooth_x = 0 /\ smooth_y = 0
    /\ current_color = <<255, 255, 0>>
    /\ selected_index = 4
    /\ canvas = << >>
    /\ points = None /\ cursor = None /\ dist = -1 /\ hover_idx = -1
    /\ is_drawing = FALSE /\ velocity = 0
    /\ sound_active = FALSE /\ sound_velocity = 0
    /\ stop_event = FALSE
    /\ audio_pc = "while"
    /\ freq = 0
    /\ hand_seen = FALSE
    /\ ticks = 0
    /\ old = [smooth |-> <<0, 0>>, canvas |-> << >>, selected_index |-> 4,
              current_color |-> <<255, 255, 0>>, hand_seen |-> FALSE]
    /\ tags = [active |-> 0, velocity |-> 0, read_active |-> 0, read_velocity |-> 0]

\* lines 9-13: winsound is importable on Windows only
Init == InitProgram /\ audio_available \in BOOLEAN /\ smoothing = None /\ probe = None

Next ==
    \/ ReadFail
    \/ TickNoHand
    \/ TickHand
    \/ SetActive
    \/ SetVelocity
    \/ Show
    \/ Stop
    \/ LoopTest
    \/ ActiveTest
    \/ ComputeFreq
    \/ BeepBegin
    \/ BeepEnd
    \/ Sleep

Spec == Init /\ [][Next]_vars

\* the audio thread is a running OS thread: it keeps taking steps
FairSpec == Spec /\ WF_vars(AudioNext)

----------------------------------------------------------------------------
(* The smoothing step on its own: lines 263-264 applied to a point, and     *)
(* applied again to its own result with the raw point held constant.        *)

Coords == (0..MaxCoord) \cup {1280}

Min(a, b) == IF a <= b THEN a ELSE b
Max(a, b) == IF a >= b THEN a ELSE b

\* lines 263-264, both axes
SmoothPoint(P, R) == <<Smooth(P[1], R[1]), Smooth(P[2], R[2])>>

SmoothInit ==
    /\ InitProgram
    /\ audio_available = FALSE
    /\ probe = None
    /\ \E P \in Coords \X Coords, R \in Coords \X Coords :
         smoothing = [start |-> P, from |-> P, prev |-> P, raw |-> R,
                      applied |-> FALSE]

SmoothStep ==
    /\ smoothing' = [smoothing EXCEPT !.from = smoothing.prev,
                                      !.prev = SmoothPoint(smoothing.prev, smoothing.raw),
                                      !.applied = TRUE]
    /\ UNCHANGED <<mainvars, sharedvars, audiovars, tags, probe>>

SmoothNext == SmoothStep

SmoothSpec == SmoothInit /\ [][SmoothNext]_vars

\* the step is applied again and again
FairSmoothSpec == SmoothSpec /\ WF_vars(SmoothNext)

----------------------------------------------------------------------------
(* The hover test on its own: lines 173-186 applied to one hover point.     *)

\* offsets from the arc centre, on both sides of each radius and of the
\* horizontal through the centre
HoverDxs == {-220, -211, -210, -209, -180, -151, -150, -149, -100,
             0, 100, 149, 150, 151, 180, 209, 210, 211, 220}
HoverDys == {-211, -180, -151, -10, -1, 0, 1, 10, 149, 150, 151, 180, 209, 210, 211}
HoverPoints ==
    {<<ARC_CENTER[1] + dx, ARC_CENTER[2] + dy>> : dx \in HoverDxs, dy \in HoverDys}
        \cup {None}

HoverInit ==
    /\ InitProgram
    /\ audio_available = FALSE
    /\ smoothing = None
    /\ \E pt \in HoverPoints :
         probe = [hover_pt |-> pt, hover_index |-> -1, applied |-> FALSE]

\* palette.draw(img, hover_pt)
HoverStep ==
    /\ ~probe.applied
    /\ probe' = [probe EXCEPT !.hover_index = HoverIndex(probe.hover_pt),
                              !.applied = TRUE]
    /\ UNCHANGED <<mainvars, sharedvars, audiovars, tags, smoothing>>

HoverNext == HoverStep

HoverSpec == HoverInit /\ [][HoverNext]_vars

----------------------------------------------------------------------------
(* The compositing of lines 306-318 at one pixel.  The glow layer blur_up   *)
(* is a weighted mean of the canvas around the pixel (resize, GaussianBlur, *)
(* resize are linear filters with non-negative weights summing to 1): a     *)
(* fraction of the colour of the strokes nearby, zero on an empty canvas.   *)

Black == <<0, 0, 0>>
MASK_THRESHOLD == 10
\* cv2.COLOR_BGR2GRAY on 8-bit pixels: fixed-point weights of B, G, R
BY15 == 3735
GY15 == 19235
RY15 == 9798
GRAY_SHIFT == 15

Sat(v) == IF v > 255 THEN 255 ELSE v

\* cv2.addWeighted(canvas, 1.0, blur_up, 1.5, 0), one channel:
\* c + 1.5 * b rounded to nearest, ties to even, and saturated
AddWeightedChannel(c, b) ==
    LET t == 2 * c + 3 * b
        q == t \div 2
    IN  Sat(IF t % 2 = 0 THEN q ELSE IF q % 2 = 0 THEN q ELSE q + 1)

AddWeighted(c, b) == [k \in 1..3 |-> AddWeightedChannel(c[k], b[k])]

\* cv2.cvtColor(final_canvas, cv2.COLOR_BGR2GRAY), one pixel
Gray(px) ==
    (BY15 * px[1] + GY15 * px[2] + RY15 * px[3] + Pow2(GRAY_SHIFT - 1))
        \div Pow2(GRAY_SHIFT)

\* cv2.threshold(gray, 10, 255, cv2.THRESH_BINARY): the pixel is in the mask
InMask(g) == g > MASK_THRESHOLD

\* cv2.bitwise_and(img, img, mask=mask_inv), one pixel
ImgBg(img, in_mask) == IF in_mask THEN Black ELSE img

\* cv2.add(img_bg, final_canvas), one pixel
Add(a, b) == [k \in 1..3 |-> Sat(a[k] + b[k])]

\* lines 310-318, one pixel: the displayed pixel
Composite(img, canvas_px, blur_up) ==
    LET final_canvas == AddWeighted(canvas_px, blur_up)
        mask == InMask(Gray(final_canvas))
    IN  Add(ImgBg(img, mask), final_canvas)

\* the camera pixels, the stroke colours and the glow weights (in 255ths)
\* tried
FramePixels == {Black, <<100, 150, 200>>, <<250, 10, 128>>, <<255, 255, 255>>}
StrokeColors == {colors[i].color : i \in 1..(num_colors - 1)}
GlowWeights == {0, 1, 4, 8, 64, 255}

\* lines 306-308 at one pixel: the share w/255 of the colour col
BlurUp(col, w) == [k \in 1..3 |-> (col[k] * w + 127) \div 255]

CompositeInit ==
    /\ InitProgram
    /\ audio_available = FALSE
    /\ smoothing = None
    /\ \E img \in FramePixels :
         \/ probe = [img |-> img, canvas_empty |-> TRUE, canvas |-> Black,
                     blur_up |-> Black, out |-> img, applied |-> FALSE]
         \/ \E col \in StrokeColors, w \in GlowWeights : \E c \in {Black, col} :
              probe = [img |-> img, canvas_empty |-> FALSE, canvas |-> c,
                       blur_up |-> BlurUp(col, w), out |-> img, applied |-> FALSE]

CompositeStep ==
    /\ ~probe.applied
    /\ probe' = [probe EXCEPT !.out = Composite(probe.img, probe.canvas, probe.blur_up),
                              !.applied = TRUE]
    /\ UNCHANGED <<mainvars, sharedvars, audiovars, tags, smoothing>>

CompositeNext == CompositeStep

CompositeSpec == CompositeInit /\ [][CompositeNext]_vars

----------------------------------------------------------------------------
(* Claims *)

\* the locals describe a tick that ran with a hand in the frame
HandTick == ticks > 0 /\ points # None
Pinched == Below(dist, PINCH_THRESHOLD)
\* the tick's set_drawing call has completed
Published == pc \in {"show", "read", "stop", "done"}

\* C1 (as claimed): a tick with a hand, a hover index other than none and a
\* pinch below the threshold commits the palette selection, draws no stroke
\* and publishes active=false, wherever the smoothed cursor is.
C1_SelectingWins ==
    (HandTick /\ hover_idx # -1 /\ Pinched) =>
        /\ pc # "crashed"
        /\ hover_idx \in 0..(num_colors - 1)
        /\ IF colors[hover_idx + 1].name = "CLEAR"
           THEN canvas = << >>
           ELSE /\ selected_index = hover_idx
                /\ current_color = colors[hover_idx + 1].color
                /\ canvas = old.canvas
        /\ is_drawing = FALSE
        /\ (Published => sound_active = FALSE /\ sound_velocity = 0)

\* C2: a tick without keypoints leaves the cursor memory, the canvas, the
\* selected index and the active colour as they were, and the signal it
\* publishes is (active=false, velocity=0).
C2_NoHandTick ==
    (ticks > 0 /\ points = None) =>
        /\ <<smooth_x, smooth_y>> = old.smooth
        /\ canvas = old.canvas
        /\ selected_index = old.selected_index
        /\ current_color = old.current_color
        /\ (Published => sound_active = FALSE /\ sound_velocity = 0)

C2_Witness ==
    /\ ticks > 0 /\ points = None /\ pc = "show"
    /\ Len(canvas) >= 2 /\ smooth_x # 0

\* C3: a committed selection of the CLEAR entry (hover index 7, pinch below
\* the threshold) leaves every canvas pixel zero and the selected index and
\* the active colour as before the tick.
C3_ClearResets ==
    (HandTick /\ hover_idx = 7 /\ Pinched) =>
        /\ canvas = << >>
        /\ selected_index = old.selected_index
        /\ current_color = old.current_color

C3_Witness ==
    /\ HandTick /\ hover_idx = 7 /\ Pinched
    /\ old.canvas # << >> /\ canvas = << >>

\* C4: a committed selection of a colour entry k in 0..6 sets the selected
\* index to k and the active colour to entry k's colour, and leaves the
\* canvas as before the tick.
C4_ColorCommit ==
    (HandTick /\ hover_idx \in 0..6 /\ Pinched) =>
        /\ selected_index = hover_idx
        /\ current_color = colors[hover_idx + 1].color
        /\ canvas = old.canvas

C4_Witness ==
    /\ HandTick /\ hover_idx \in 0..6 /\ Pinched
    /\ old.canvas # << >> /\ old.selected_index # hover_idx
    /\ current_color # old.current_color

\* the tick met the conditions of the DRAWING branch
DrawingTick == HandTick /\ hover_idx = -1 /\ Pinched /\ cursor[2] > GUARD_LINE

\* C5 (as claimed): in a DRAWING tick the stroke appended is the segment
\* from the previous raw index-tip position to the current one, in the
\* active colour.
C5_StrokeFromPreviousTip ==
    (DrawingTick /\ old.hand_seen) =>
        canvas = Append(old.canvas, [from |-> old.smooth, to |-> points[1],
                                     color |-> current_color])

\* C5 (amended): in a DRAWING tick the stroke appended is the segment from
\* the tick's smoothed cursor - per axis int(prev*0.4 + tip*0.6), prev the
\* remembered raw index-tip position, or the current tip while the
\* remembered x is 0 - to the current raw index-tip position, in the
\* active colour.
C5_StrokeFromCursor ==
    DrawingTick =>
        LET tip  == points[1]
            prev == IF old.smooth[1] = 0 THEN tip ELSE old.smooth
            from == <<Smooth(prev[1], tip[1]), Smooth(prev[2], tip[2])>>
        IN  /\ is_drawing
            /\ current_color = old.current_color
            /\ canvas = Append(old.canvas,
                               [from |-> from, to |-> tip, color |-> current_color])

C5_Witness ==
    /\ DrawingTick /\ old.hand_seen /\ is_drawing
    /\ canvas[Len(canvas)].from # old.smooth
    /\ canvas[Len(canvas)].from # points[1]
    /\ old.canvas # << >>

\* C6 (as claimed): once the stop flag is set, no tone emission begins.
C6_NoToneAfterStop ==
    [][~(stop_event /\ audio_pc = "beep" /\ audio_pc' = "beeping")]_vars

\* C7: once the stop flag is set the audio loop terminates, and it starts no
\* iteration after the flag was set: at the loop test it can only leave.
C7_LoopExits ==
    /\ stop_event ~> (audio_pc = "done")
    /\ [][(stop_event /\ audio_pc = "while") => audio_pc' \in {"while", "done"}]_vars

C7_Witness ==
    /\ stop_event /\ audio_pc = "done"
    /\ audio_available /\ sound_active /\ sound_velocity > 0

\* C8: on the first tick that detects a hand the smoothed cursor is the raw
\* index-tip position, so a stroke drawn on that tick has from = to and
\* the velocity is 0.
C8_FirstHandTick ==
    (HandTick /\ ~old.hand_seen) =>
        /\ cursor = points[1]
        /\ is_drawing =>
             /\ velocity = 0
             /\ canvas # << >>
             /\ canvas[Len(canvas)].from = canvas[Len(canvas)].to

C8_Witness ==
    /\ HandTick /\ ~old.hand_seen /\ is_drawing
    /\ ticks >= 2 /\ cursor = <<640, 500>>

\* C9: each coordinate of the smoothed point lies between the corresponding
\* coordinates of the previous point and the raw point, inclusive.
C9_Between ==
    smoothing.applied =>
        \A a \in 1..2 :
            /\ Min(smoothing.from[a], smoothing.raw[a]) <= smoothing.prev[a]
            /\ smoothing.prev[a] <= Max(smoothing.from[a], smoothing.raw[a])

C9_Witness ==
    /\ smoothing.applied
    /\ smoothing.from[1] = 1 /\ smoothing.raw[1] = 6 /\ smoothing.prev[1] = 3
    /\ smoothing.from[2] > smoothing.prev[2] /\ smoothing.prev[2] > smoothing.raw[2]

\* C10 (as claimed): the repeated smoothing reaches R and stays at R.
C10_ReachesRaw == <>[](smoothing.prev = smoothing.raw)

\* where the repeated smoothing of one coordinate comes to rest
Rest(p, r) == IF p < r THEN r - 1 ELSE r

\* C10 (amended): for non-negative coordinates the repeated smoothing
\* reaches, per axis, R when it starts at or above R and R - 1 when it
\* starts below R, and stays there.
C10_ReachesRest ==
    <>[](smoothing.prev = <<Rest(smoothing.start[1], smoothing.raw[1]),
                            Rest(smoothing.start[2], smoothing.raw[2])>>)

C10_Witness ==
    /\ smoothing.applied
    /\ smoothing.start[1] + 2 < smoothing.raw[1]
    /\ smoothing.start[2] > smoothing.raw[2] + 2
    /\ smoothing.prev = <<smoothing.raw[1] - 1, smoothing.raw[2]>>
    /\ smoothing.from = smoothing.prev

\* the squared distance of a hover point from the arc centre
CenterDist2(pt) == Hypot2(pt[1] - ARC_CENTER[1], pt[2] - ARC_CENTER[2])

\* C11: the hover test returns -1 for an absent point, for a point nearer
\* to the arc centre than 150 or farther than 210, and for a point above
\* the centre (angle strictly between 180 and 360 degrees).
C11_HoverNone ==
    (probe.applied /\
        (\/ probe.hover_pt = None
         \/ CenterDist2(probe.hover_pt) < ARC_RADIUS * ARC_RADIUS
         \/ CenterDist2(probe.hover_pt) >
                (ARC_RADIUS + ARC_THICKNESS) * (ARC_RADIUS + ARC_THICKNESS)
         \/ probe.hover_pt[2] < ARC_CENTER[2]))
        => probe.hover_index = -1

\* a point inside the inner radius and below the centre, tested
C11_Witness ==
    /\ probe.applied
    /\ probe.hover_pt = <<ARC_CENTER[1] + 100, ARC_CENTER[2] + 10>>
    /\ probe.hover_index = -1

\* the tick's pass through lines 250-303 has ended, by reaching the end of
\* set_drawing or by the exception of line 277
TickEnded == ticks > 0 /\ (Published \/ pc = "crashed")

\* C12 (as claimed): after every tick the published signal is active with
\* the distance between the smoothed cursor and the raw index tip as its
\* velocity when the tick drew, and exactly (false, 0) after every other tick.
C12_SignalAfterTick ==
    TickEnded =>
        IF DrawingTick
        THEN /\ sound_active = TRUE
             /\ sound_velocity = Hypot2(cursor[1] - points[1][1],
                                        cursor[2] - points[1][2])
        ELSE /\ sound_active = FALSE
             /\ sound_velocity = 0

\* C13 (as claimed): on every tick with a hand other than the first one the
\* smoothed cursor is the smoothing of the raw index tip remembered from
\* the last tick with a hand toward the raw index tip of this tick, and is
\* never seeded with the raw tip itself.
C13_SmoothedFromRemembered ==
    (HandTick /\ old.hand_seen) => cursor = SmoothPoint(old.smooth, points[1])

\* the tick committed the CLEAR entry of the palette
ClearTick ==
    /\ HandTick /\ Pinched
    /\ hover_idx \in 0..(num_colors - 1)
    /\ colors[hover_idx + 1].name = "CLEAR"

\* C14: the canvas starts empty; a DRAWING tick adds one stroke in the
\* active colour, a committed CLEAR empties it, and every other tick (no
\* hand, idle, colour selection) leaves it as it was.  The cursor, the
\* hover index and the branch taken are functions of the cursor memory and
\* the raw landmarks alone, whatever the canvas holds.
C14_CanvasFrame ==
    /\ ticks = 0 => canvas = << >>
    /\ ticks > 0 =>
        canvas = IF DrawingTick
                 THEN Append(old.canvas, [from |-> cursor, to |-> points[1],
                                          color |-> old.current_color])
                 ELSE IF ClearTick THEN << >>
                 ELSE old.canvas
    /\ HandTick =>
        /\ cursor = SmoothCursor(old.smooth[1], old.smooth[2], points[1])
        /\ hover_idx = HoverIndex(cursor)
        /\ is_drawing = (hover_idx = -1 /\ Pinched /\ cursor[2] > GUARD_LINE)

\* a colour-selection tick that found strokes on the canvas and kept them
C14_Witness ==
    /\ HandTick /\ Pinched
    /\ hover_idx \in 0..(num_colors - 1)
    /\ colors[hover_idx + 1].name # "CLEAR"
    /\ old.canvas # << >>
    /\ canvas = old.canvas
    /\ pc = "show"

\* C15 (as claimed): a pixel of the frame whose composite gray value is not
\* above the threshold 10 is displayed exactly as the camera gave it, and
\* with an empty canvas every pixel is.
C15_OutsideMaskKept ==
    probe.applied =>
        /\ ~InMask(Gray(AddWeighted(probe.canvas, probe.blur_up)))
              => probe.out = probe.img
        /\ probe.canvas_empty => probe.out = probe.img

\* C16 (as claimed): for a hover point with non-negative pixel coordinates
\* the hover test returns -1 or a position of the palette, 0..7, also on
\* the frame's top edge at exactly 180 degrees.
C16_HoverInPalette ==
    (/\ probe.applied
     /\ probe.hover_pt # None
     /\ probe.hover_pt[1] >= 0
     /\ probe.hover_pt[2] >= 0)
        => probe.hover_index \in -1..(num_colors - 1)

\* C17 (as claimed): the active flag and the velocity a tone is computed
\* from were written by the same set_drawing call (or are both the
\* initial values).
C17_TonePairFromOneCall ==
    audio_pc = "beep" => tags.read_active = tags.read_velocity

\* C18 (as claimed): every stroke on the canvas starts and ends (with its
\* end cap) strictly below the guard line y = 200.
C18_StrokesBelowGuardLine ==
    \A i \in 1..Len(canvas) :
        /\ canvas[i].from[2] > GUARD_LINE
        /\ canvas[i].to[2] > GUARD_LINE

\* C19: the selected index is always one of the seven colours, never the
\* CLEAR entry, and the active colour is the colour of that entry.
C19_SelectedColor ==
    /\ selected_index \in 0..(num_colors - 2)
    /\ colors[selected_index + 1].name # "CLEAR"
    /\ current_color = colors[selected_index + 1].color

\* a CLEAR committed after another colour than the initial one was selected
C19_Witness ==
    /\ ClearTick
    /\ pc = "show"
    /\ selected_index # 4
    /\ current_color = colors[selected_index + 1].color

=============================================================================
